---- MODULE Spec2Model ----
(***************************************************************************)
(* Model of the Evaluation mirror of agent_eval_sdk.py: the constructor,   *)
(* refresh, wait_for_completion (one action per position of its polling    *)
(* loop), cancel and to_dict, on top of EvalClient._request.               *)
(*                                                                         *)
(* Time is counted in whole seconds.  A dict is a TLA+ function from its   *)
(* keys, so `"results" in data` is "results" \in DOMAIN data.              *)
(***************************************************************************)
EXTENDS Integers, Sequences, FiniteSets, TLC

VARIABLES status, results, raw_data, pc, now, start_time, timeout,
          outcome, fetched, log, refreshes, sleeps, refresh_time,
          id, requests, call

vars == <<status, results, raw_data, pc, now, start_time, timeout,
          outcome, fetched, log, refreshes, sleeps, refresh_time,
          id, requests, call>>

(***************************************************************************)
(* Bounds of the model.                                                    *)
(***************************************************************************)
MaxNegTimeout == 1
MaxTimeout == 5
MaxRefreshDur == 1
MaxStart == 1

(***************************************************************************)
(* Program constants.                                                      *)
(***************************************************************************)
POLLING_INTERVAL == 2

PENDING == "pending"
RUNNING == "running"
COMPLETED == "completed"
FAILED == "failed"

EvalStatus == {PENDING, RUNNING, COMPLETED, FAILED}

\* The status is copied from the service as a plain string, so the service
\* may also send a string outside the enumeration.
ServiceStatuses == EvalStatus \cup {"paused"}

(***************************************************************************)
(* Result payloads.  overall_score is in hundredths.                       *)
(***************************************************************************)
ResultFields == {"overall_score", "passed_tests", "failed_tests",
                 "categories", "execution_time_seconds"}

PayloadA == [overall_score |-> 75, passed_tests |-> 3, failed_tests |-> 1,
             categories |-> 1, execution_time_seconds |-> 5]
PayloadB == [overall_score |-> 50, passed_tests |-> 1, failed_tests |-> 1,
             categories |-> 2, execution_time_seconds |-> 7]
\* a results object of the service that lacks required fields
PayloadBad == [overall_score |-> 75]

ValidPayloads == {PayloadA, PayloadB}
Payloads == ValidPayloads \cup {PayloadBad}

None == [cls |-> "NoneType"]

\* EvaluationResults.from_dict: cls(**data) succeeds exactly when the keys
\* are the dataclass fields, and raises TypeError otherwise.
from_dict_ok(d) == DOMAIN d = ResultFields

from_dict(d) == [cls |-> "EvaluationResults",
                 overall_score |-> d["overall_score"],
                 passed_tests |-> d["passed_tests"],
                 failed_tests |-> d["failed_tests"],
                 categories |-> d["categories"],
                 execution_time_seconds |-> d["execution_time_seconds"]]

\* the object carries exactly the values of the payload dict
SamePayload(obj, d) ==
    /\ obj.cls = "EvaluationResults"
    /\ from_dict_ok(d)
    /\ \A f \in ResultFields : obj[f] = d[f]

(***************************************************************************)
(* Bodies of GET /evaluations/{id}.                                        *)
(***************************************************************************)
Responses == {[status |-> s] : s \in ServiceStatuses}
             \cup {[status |-> s, results |-> p] : s \in ServiceStatuses, p \in Payloads}

HasResults(data) == "results" \in DOMAIN data

(***************************************************************************)
(* EvalClient._request: what the HTTP layer hands back, and what _request  *)
(* makes of it.                                                            *)
(***************************************************************************)
StatusCodes == {200, 400, 401, 404, 500, 503}

Replies == {[kind |-> "response", status_code |-> 200, body |-> d] : d \in Responses}
           \cup {[kind |-> "response", status_code |-> c] : c \in StatusCodes \ {200}}
           \cup {[kind |-> "timeout"], [kind |-> "connection_error"]}

EvalException(msg, code) == [cls |-> "EvalException", msg |-> msg, code |-> code]

\* variant: the server-error test written with > instead of >=
_request_Above500(reply) ==
    IF reply.kind = "timeout"
    THEN [ok |-> FALSE, exc |-> EvalException("request_timed_out", "TIMEOUT")]
    ELSE IF reply.kind = "connection_error"
    THEN [ok |-> FALSE, exc |-> EvalException("connection_failed", "CONNECTION_ERROR")]
    ELSE IF reply.status_code = 401
    THEN [ok |-> FALSE, exc |-> EvalException("invalid_api_key", "AUTH_ERROR")]
    ELSE IF reply.status_code = 404
    THEN [ok |-> FALSE, exc |-> EvalException("resource_not_found", "NOT_FOUND")]
    ELSE IF reply.status_code > 500
    THEN [ok |-> FALSE, exc |-> EvalException("server_error", "SERVER_ERROR")]
    ELSE IF reply.status_code >= 400
    THEN [ok |-> FALSE, exc |-> EvalException("api_request_failed", "REQUEST_ERROR")]
    ELSE [ok |-> TRUE, data |-> reply.body]

_request(reply) ==
    IF reply.kind = "timeout"
    THEN [ok |-> FALSE, exc |-> EvalException("request_timed_out", "TIMEOUT")]
    ELSE IF reply.kind = "connection_error"
    THEN [ok |-> FALSE, exc |-> EvalException("connection_failed", "CONNECTION_ERROR")]
    ELSE IF reply.status_code = 401
    THEN [ok |-> FALSE, exc |-> EvalException("invalid_api_key", "AUTH_ERROR")]
    ELSE IF reply.status_code = 404
    THEN [ok |-> FALSE, exc |-> EvalException("resource_not_found", "NOT_FOUND")]
    ELSE IF reply.status_code >= 500
    THEN [ok |-> FALSE, exc |-> EvalException("server_error", "SERVER_ERROR")]
    ELSE IF reply.status_code >= 400
    THEN [ok |-> FALSE, exc |-> EvalException("api_request_failed", "REQUEST_ERROR")]
    ELSE [ok |-> TRUE, data |-> reply.body]

(***************************************************************************)
(* Outcomes of an operation.                                               *)
(***************************************************************************)
NoFetch == [fetch |-> "none"]
Fetched(data) == [fetch |-> "ok", data |-> data]
FetchFailed(e) == [fetch |-> "error", exc |-> e]

Idle == [op |-> "none", kind |-> "none"]
InProgress(op) == [op |-> op, kind |-> "running"]
Returned(op, v) == [op |-> op, kind |-> "return", value |-> v]
Raised(op, e) == [op |-> op, kind |-> "raise", exc |-> e]

TimeoutError == [cls |-> "TimeoutError", msg |-> "timed_out", code |-> "None"]
NotImplementedError == [cls |-> "NotImplementedError", msg |-> "cancellation", code |-> "None"]
TypeError == [cls |-> "TypeError", msg |-> "from_dict", code |-> "None"]
NoResultsError == EvalException("completed_no_results", "None")
FailedError == EvalException("evaluation_failed", "None")

Self == [cls |-> "Evaluation"]

(***************************************************************************)
(* Requests handed to EvalClient._request by _get and _post.  An endpoint  *)
(* f"/evaluations/{id}" is the pair of its fixed part and the id.          *)
(***************************************************************************)
EvalIds == {"eval_1", "eval_2"}
\* the id of the evaluation whose mirror the polling model follows
TrackedId == "eval_1"

_get(endpoint) == [method |-> "GET", endpoint |-> endpoint]
_post(endpoint, data) == [method |-> "POST", endpoint |-> endpoint, data |-> data]

\* variant: refresh asks the service to re-run the evaluation
refresh_request_Post(eval_id) == _post(<<"/evaluations/", eval_id>>, <<>>)

\* the request of Evaluation.refresh
refresh_request(eval_id) == _get(<<"/evaluations/", eval_id>>)

\* no call of the client-level operations is in progress
NoCall == [op |-> "none"]

mirror == <<status, results, raw_data>>
timing == <<now, start_time, timeout>>

(***************************************************************************)
(* Evaluation.__init__: the mirror built from a service response.  The     *)
(* results attribute starts as None whatever the response holds.           *)
(***************************************************************************)
Init ==
    /\ \E data \in Responses :
          /\ status = data["status"]
          /\ raw_data = data
    /\ results = None
    /\ pc = "idle"
    /\ now = 0
    /\ start_time = 0
    /\ timeout = 0
    /\ outcome = Idle
    /\ fetched = NoFetch
    /\ log = <<>>
    /\ refreshes = 0
    /\ sleeps = 0
    /\ refresh_time = 0
    /\ id = TrackedId
    /\ requests = <<>>
    /\ call = NoCall

(***************************************************************************)
(* Evaluation.refresh.                                                     *)
(***************************************************************************)
\* variant: results are filled in only while the attribute is still None
refresh_results_KeepFirst(old, data) ==
    IF old = None /\ HasResults(data) /\ from_dict_ok(data["results"])
    THEN from_dict(data["results"])
    ELSE old

\* the results attribute after refresh has read `data`
refresh_results(old, data) ==
    IF HasResults(data) /\ from_dict_ok(data["results"])
    THEN from_dict(data["results"])
    ELSE old

\* refresh raises when the GET fails, or when from_dict rejects the payload
refresh_raises(reply) ==
    \/ ~_request(reply).ok
    \/ /\ HasResults(_request(reply).data)
       /\ ~from_dict_ok(_request(reply).data["results"])

refresh_exc(reply) ==
    IF ~_request(reply).ok THEN _request(reply).exc ELSE TypeError

\* the assignments of refresh, in program order: nothing is assigned when
\* _get raises; status and _raw_data are assigned before from_dict runs
refresh(reply) ==
    IF _request(reply).ok
    THEN /\ status' = _request(reply).data["status"]
         /\ raw_data' = _request(reply).data
         /\ results' = refresh_results(results, _request(reply).data)
         /\ fetched' = Fetched(_request(reply).data)
    ELSE /\ UNCHANGED mirror
         /\ fetched' = FetchFailed(_request(reply).exc)

\* a direct call of refresh by the owner of the mirror, answered by `reply`
RefreshCall(reply) ==
    /\ pc = "idle"
    /\ refresh(reply)
    /\ outcome' = IF refresh_raises(reply)
                  THEN Raised("refresh", refresh_exc(reply))
                  ELSE Returned("refresh", Self)
    /\ log' = IF _request(reply).ok THEN <<_request(reply).data>> ELSE <<>>
    /\ refreshes' = 1
    /\ sleeps' = 0
    /\ refresh_time' = 0
    /\ UNCHANGED <<pc, timing>>
    /\ requests' = <<refresh_request(id)>>
    /\ UNCHANGED <<id, call>>

Refresh == \E reply \in Replies : RefreshCall(reply)

(***************************************************************************)
(* Evaluation.cancel and Evaluation.to_dict.                               *)
(***************************************************************************)
\* variant: cancel marks the mirror as failed and reports success
cancel_MarksFailed ==
    /\ pc = "idle"
    /\ outcome' = Returned("cancel", [cls |-> "bool", value |-> TRUE])
    /\ status' = FAILED
    /\ fetched' = NoFetch
    /\ log' = <<>>
    /\ refreshes' = 0
    /\ sleeps' = 0
    /\ refresh_time' = 0
    /\ requests' = <<>>
    /\ UNCHANGED <<results, raw_data, pc, timing, id, call>>

cancel ==
    /\ pc = "idle"
    /\ outcome' = Raised("cancel", NotImplementedError)
    /\ fetched' = NoFetch
    /\ log' = <<>>
    /\ refreshes' = 0
    /\ sleeps' = 0
    /\ refresh_time' = 0
    /\ UNCHANGED <<mirror, pc, timing>>
    /\ requests' = <<>>
    /\ UNCHANGED <<id, call>>

to_dict ==
    /\ pc = "idle"
    /\ outcome' = Returned("to_dict", raw_data)
    /\ fetched' = NoFetch
    /\ log' = <<>>
    /\ refreshes' = 0
    /\ sleeps' = 0
    /\ refresh_time' = 0
    /\ UNCHANGED <<mirror, pc, timing>>
    /\ requests' = <<>>
    /\ UNCHANGED <<id, call>>

\* time passing between two calls on the mirror
Tick ==
    /\ pc = "idle"
    /\ now < MaxStart
    /\ now' = now + 1
    /\ fetched' = NoFetch
    /\ UNCHANGED <<mirror, pc, start_time, timeout, outcome, log, refreshes,
                   sleeps, refresh_time>>
    /\ UNCHANGED <<id, call, requests>>

(***************************************************************************)
(* Evaluation.wait_for_completion, one action per position.                *)
(***************************************************************************)
\* variant: the loop condition written with <=
LoopCondition_Inclusive(elapsed, t) == elapsed <= t

\* the loop condition: time.time() - start_time < timeout
LoopCondition(elapsed, t) == elapsed < t

WaitStart ==
    /\ pc = "idle"
    /\ now <= MaxStart
    /\ \E t \in (0 - MaxNegTimeout)..MaxTimeout : timeout' = t
    /\ start_time' = now
    /\ pc' = "test"
    /\ outcome' = InProgress("wait_for_completion")
    /\ fetched' = NoFetch
    /\ log' = <<>>
    /\ refreshes' = 0
    /\ sleeps' = 0
    /\ refresh_time' = 0
    /\ UNCHANGED <<mirror, now>>
    /\ requests' = <<>>
    /\ UNCHANGED <<id, call>>

\* variant: a timeout marks the mirror as failed
WaitTest_MarksFailed ==
    /\ pc = "test"
    /\ IF LoopCondition(now - start_time, timeout)
       THEN /\ pc' = "refresh"
            /\ UNCHANGED <<outcome, status>>
       ELSE /\ pc' = "idle"
            /\ outcome' = Raised("wait_for_completion", TimeoutError)
            /\ status' = FAILED
    /\ fetched' = NoFetch
    /\ UNCHANGED <<results, raw_data, timing, log, refreshes, sleeps, refresh_time>>
    /\ UNCHANGED <<id, call, requests>>

WaitTest ==
    /\ pc = "test"
    /\ IF LoopCondition(now - start_time, timeout)
       THEN /\ pc' = "refresh"
            /\ UNCHANGED outcome
       ELSE /\ pc' = "idle"
            /\ outcome' = Raised("wait_for_completion", TimeoutError)
    /\ fetched' = NoFetch
    /\ UNCHANGED <<mirror, timing, log, refreshes, sleeps, refresh_time>>
    /\ UNCHANGED <<id, call, requests>>

\* variant: a failed GET is swallowed and polled again after the sleep
WaitRefresh_Retries ==
    /\ pc = "refresh"
    /\ \E reply \in Replies, d \in 0..MaxRefreshDur :
          /\ refresh(reply)
          /\ now' = now + d
          /\ refresh_time' = refresh_time + d
          /\ log' = IF _request(reply).ok THEN Append(log, _request(reply).data) ELSE log
          /\ IF ~_request(reply).ok
             THEN /\ pc' = "sleep"
                  /\ UNCHANGED outcome
             ELSE IF refresh_raises(reply)
             THEN /\ pc' = "idle"
                  /\ outcome' = Raised("wait_for_completion", refresh_exc(reply))
             ELSE /\ pc' = "check"
                  /\ UNCHANGED outcome
    /\ refreshes' = refreshes + 1
    /\ UNCHANGED <<start_time, timeout, sleeps>>
    /\ requests' = Append(requests, refresh_request(id))
    /\ UNCHANGED <<id, call>>

\* the refresh of one loop iteration, answered by `reply` after d seconds
WaitRefreshCall(reply, d) ==
    /\ pc = "refresh"
    /\ refresh(reply)
    /\ now' = now + d
    /\ refresh_time' = refresh_time + d
    /\ log' = IF _request(reply).ok THEN Append(log, _request(reply).data) ELSE log
    /\ IF refresh_raises(reply)
       THEN /\ pc' = "idle"
            /\ outcome' = Raised("wait_for_completion", refresh_exc(reply))
       ELSE /\ pc' = "check"
            /\ UNCHANGED outcome
    /\ refreshes' = refreshes + 1
    /\ UNCHANGED <<start_time, timeout, sleeps>>
    /\ requests' = Append(requests, refresh_request(id))
    /\ UNCHANGED <<id, call>>

WaitRefresh == \E reply \in Replies, d \in 0..MaxRefreshDur : WaitRefreshCall(reply, d)

\* variant: the failed branch is missing
WaitCheck_NoFailedBranch ==
    /\ pc = "check"
    /\ IF status = COMPLETED
       THEN /\ pc' = "idle"
            /\ outcome' = IF results = None
                          THEN Raised("wait_for_completion", NoResultsError)
                          ELSE Returned("wait_for_completion", results)
       ELSE /\ pc' = "sleep"
            /\ UNCHANGED outcome
    /\ fetched' = NoFetch
    /\ UNCHANGED <<mirror, timing, log, refreshes, sleeps, refresh_time>>
    /\ UNCHANGED <<id, call, requests>>

\* variant: a non-terminal status polls again without sleeping
WaitCheck_NoSleep ==
    /\ pc = "check"
    /\ IF status = COMPLETED
       THEN /\ pc' = "idle"
            /\ outcome' = IF results = None
                          THEN Raised("wait_for_completion", NoResultsError)
                          ELSE Returned("wait_for_completion", results)
       ELSE IF status = FAILED
       THEN /\ pc' = "idle"
            /\ outcome' = Raised("wait_for_completion", FailedError)
       ELSE /\ pc' = "test"
            /\ UNCHANGED outcome
    /\ fetched' = NoFetch
    /\ UNCHANGED <<mirror, timing, log, refreshes, sleeps, refresh_time>>
    /\ UNCHANGED <<id, call, requests>>

\* variant: the deadline is looked at before the fetched status
WaitCheck_DeadlineFirst ==
    /\ pc = "check"
    /\ IF ~LoopCondition(now - start_time, timeout)
       THEN /\ pc' = "idle"
            /\ outcome' = Raised("wait_for_completion", TimeoutError)
       ELSE IF status = COMPLETED
       THEN /\ pc' = "idle"
            /\ outcome' = IF results = None
                          THEN Raised("wait_for_completion", NoResultsError)
                          ELSE Returned("wait_for_completion", results)
       ELSE IF status = FAILED
       THEN /\ pc' = "idle"
            /\ outcome' = Raised("wait_for_completion", FailedError)
       ELSE /\ pc' = "sleep"
            /\ UNCHANGED outcome
    /\ fetched' = NoFetch
    /\ UNCHANGED <<mirror, timing, log, refreshes, sleeps, refresh_time>>
    /\ UNCHANGED <<id, call, requests>>

WaitCheck ==
    /\ pc = "check"
    /\ IF status = COMPLETED
       THEN /\ pc' = "idle"
            /\ outcome' = IF results = None
                          THEN Raised("wait_for_completion", NoResultsError)
                          ELSE Returned("wait_for_completion", results)
       ELSE IF status = FAILED
       THEN /\ pc' = "idle"
            /\ outcome' = Raised("wait_for_completion", FailedError)
       ELSE /\ pc' = "sleep"
            /\ UNCHANGED outcome
    /\ fetched' = NoFetch
    /\ UNCHANGED <<mirror, timing, log, refreshes, sleeps, refresh_time>>
    /\ UNCHANGED <<id, call, requests>>

\* variant: the sleep lasts two polling intervals
WaitSleep_Double ==
    /\ pc = "sleep"
    /\ now' = now + 2 * POLLING_INTERVAL
    /\ sleeps' = sleeps + 1
    /\ pc' = "test"
    /\ fetched' = NoFetch
    /\ UNCHANGED <<mirror, start_time, timeout, outcome, log, refreshes, refresh_time>>
    /\ UNCHANGED <<id, call, requests>>

\* variant: the sleep lasts half a polling interval
WaitSleep_Half ==
    /\ pc = "sleep"
    /\ now' = now + POLLING_INTERVAL \div 2
    /\ sleeps' = sleeps + 1
    /\ pc' = "test"
    /\ fetched' = NoFetch
    /\ UNCHANGED <<mirror, start_time, timeout, outcome, log, refreshes, refresh_time>>
    /\ UNCHANGED <<id, call, requests>>

WaitSleep ==
    /\ pc = "sleep"
    /\ now' = now + POLLING_INTERVAL
    /\ sleeps' = sleeps + 1
    /\ pc' = "test"
    /\ fetched' = NoFetch
    /\ UNCHANGED <<mirror, start_time, timeout, outcome, log, refreshes, refresh_time>>
    /\ UNCHANGED <<id, call, requests>>

Next ==
    \/ Refresh
    \/ cancel
    \/ to_dict
    \/ Tick
    \/ WaitStart
    \/ WaitTest
    \/ WaitRefresh
    \/ WaitCheck
    \/ WaitSleep

Spec == Init /\ [][Next]_vars

\* The call runs on one thread that is never descheduled for ever: the loop
\* test, the status check and time.sleep each complete, and so does every
\* refresh whose HTTP request returns or fails (requests are sent with a
\* timeout).
WaitFairness ==
    /\ WF_vars(WaitTest)
    /\ WF_vars(WaitRefresh)
    /\ WF_vars(WaitCheck)
    /\ WF_vars(WaitSleep)

\* a caller that does nothing but call wait_for_completion, again and again
NextWait ==
    \/ WaitStart
    \/ WaitTest
    \/ WaitRefresh
    \/ WaitCheck
    \/ WaitSleep

SpecFair == Init /\ [][NextWait]_vars /\ WaitFairness

(***************************************************************************)
(* EvalClient._request under refresh: one refresh for every answer of the  *)
(* HTTP layer.  Every HTTP response carries a body, also an error one.     *)
(***************************************************************************)
MaxStatusCode == 599

HttpStatusCodes == 100..MaxStatusCode

HttpBodies == {[status |-> RUNNING], [status |-> COMPLETED, results |-> PayloadA]}

HttpReplies ==
    {[kind |-> "response", status_code |-> c, body |-> d] :
        c \in HttpStatusCodes, d \in HttpBodies}
    \cup {[kind |-> "timeout"], [kind |-> "connection_error"]}

InitRequest ==
    /\ status = PENDING
    /\ raw_data = [status |-> PENDING]
    /\ results = None
    /\ pc = "idle"
    /\ now = 0
    /\ start_time = 0
    /\ timeout = 0
    /\ outcome = Idle
    /\ fetched = NoFetch
    /\ log = <<>>
    /\ refreshes = 0
    /\ sleeps = 0
    /\ refresh_time = 0
    /\ id \in EvalIds
    /\ requests = <<>>
    /\ \E reply \in HttpReplies : call = [op |-> "refresh", reply |-> reply]

RequestRefresh ==
    /\ call.op = "refresh"
    /\ outcome = Idle
    /\ RefreshCall(call.reply)

SpecRequest == InitRequest /\ [][RequestRefresh]_vars

(***************************************************************************)
(* Vocabulary of the properties.                                           *)
(***************************************************************************)
WAIT == "wait_for_completion"
Terminal == {COMPLETED, FAILED}
ServiceCodes == {"AUTH_ERROR", "NOT_FOUND", "SERVER_ERROR", "REQUEST_ERROR",
                 "TIMEOUT", "CONNECTION_ERROR"}
IsServiceError(e) == e.cls = "EvalException" /\ e.code \in ServiceCodes
Last(q) == q[Len(q)]
\* the refresh that fetched `data` returned normally
Converts(data) == HasResults(data) => from_dict_ok(data["results"])
WaitEnded == outcome.op = WAIT /\ pc = "idle"
WaitTimedOut == WaitEnded /\ outcome.kind = "raise" /\ outcome.exc = TimeoutError

\* C1: with timeout <= 0, wait_for_completion raises the timeout error after
\* zero refresh calls (no GET) and zero sleeps, whatever the mirror holds.
C1_NonPositiveTimeout ==
    (outcome.op = WAIT /\ timeout <= 0) =>
        /\ pc \in {"test", "idle"}
        /\ refreshes = 0
        /\ sleeps = 0
        /\ log = <<>>
        /\ pc = "idle" => (outcome.kind = "raise" /\ outcome.exc = TimeoutError)

C1_Witness ==
    /\ WaitTimedOut
    /\ timeout <= 0
    /\ status = COMPLETED
    /\ results # None

\* C2: when the first k-1 responses of a call are pending or running and the
\* k-th is completed with a result payload, the call returns the payload of
\* the k-th response after exactly k refresh calls.
C2_Shape ==
    /\ outcome.op = WAIT
    /\ Len(log) >= 1
    /\ \A i \in 1..(Len(log) - 1) : log[i]["status"] \in {PENDING, RUNNING}
    /\ Last(log)["status"] = COMPLETED
    /\ HasResults(Last(log))
    /\ Converts(Last(log))

C2_ReturnsKthPayload ==
    C2_Shape =>
        /\ pc \in {"check", "idle"}
        /\ refreshes = Len(log)
        /\ sleeps = Len(log) - 1
        /\ pc = "idle" =>
              /\ outcome.kind = "return"
              /\ SamePayload(outcome.value, Last(log)["results"])

C2_Witness ==
    /\ WaitEnded
    /\ Len(log) = 3
    /\ log[1] = [status |-> PENDING]
    /\ log[2] = [status |-> RUNNING, results |-> PayloadA]
    /\ log[3] = [status |-> COMPLETED, results |-> PayloadB]
    /\ refreshes = 3
    /\ outcome.kind = "return"
    /\ outcome.value = from_dict(PayloadB)

\* C3: when a refresh inside wait_for_completion reports status failed, the
\* call raises the evaluation-failed error at once: no sleep and no refresh
\* follows that response.
C3_FailedRaisesAtOnce ==
    (outcome.op = WAIT /\ Len(log) >= 1 /\ Last(log)["status"] = FAILED
        /\ Converts(Last(log))) =>
        /\ pc \in {"check", "idle"}
        /\ refreshes = Len(log)
        /\ sleeps = Len(log) - 1
        /\ pc = "idle" => (outcome.kind = "raise" /\ outcome.exc = FailedError)

C3_Witness ==
    /\ WaitEnded
    /\ Len(log) = 1
    /\ log[1]["status"] = FAILED
    /\ refreshes = 1
    /\ sleeps = 0
    /\ outcome.kind = "raise"
    /\ outcome.exc = FailedError

\* C4: when a refresh inside wait_for_completion fetches status completed
\* with no results field, the call raises an error whose kind differs from
\* the evaluation-failed and the service errors, and returns no value,
\* whatever the mirror held before.
C4_InconsistentState ==
    (WaitEnded /\ Len(log) >= 1 /\ Last(log)["status"] = COMPLETED
        /\ ~HasResults(Last(log))) =>
        /\ outcome.kind = "raise"
        /\ outcome.exc.cls # FailedError.cls
        /\ ~IsServiceError(outcome.exc)

\* C5: the result payload of the mirror is non-null if and only if its
\* status is completed.
C5_ResultsIffCompleted ==
    (results # None) <=> (status = COMPLETED)

\* C6: after a successful refresh the local status and result are those of
\* the fetched response, the result being absent when the response has no
\* results field.
C6_RefreshOverwrites ==
    (fetched.fetch = "ok" /\ Converts(fetched.data)) =>
        /\ status = fetched.data["status"]
        /\ results = IF HasResults(fetched.data)
                     THEN from_dict(fetched.data["results"])
                     ELSE None

\* C7: with a service that stays running and refresh calls that take no
\* time, a call with timeout > 0 raises the timeout error at an elapsed time
\* T with timeout <= T <= timeout + 2; the timeout error is never raised
\* before timeout has elapsed.
AllRunning == \A i \in 1..Len(log) : log[i]["status"] = RUNNING

C7_TimeoutWithinOneInterval ==
    [][(pc = "test" /\ pc' = "idle") =>
          /\ outcome' = Raised(WAIT, TimeoutError)
          /\ now - start_time >= timeout
          /\ (timeout > 0 /\ refresh_time = 0 /\ AllRunning) =>
                now - start_time <= timeout + 2]_vars

C7_Witness ==
    /\ WaitTimedOut
    /\ timeout = 3
    /\ refresh_time = 0
    /\ Len(log) = 2
    /\ AllRunning
    /\ now - start_time = 4

\* C8: a refresh inside wait_for_completion that fails with a service error
\* ends the call at once with that same error: no retry, no sleep, no
\* timeout error and no result.
C8_ServiceErrorAborts ==
    [][(pc = "refresh" /\ fetched'.fetch = "error") =>
          /\ pc' = "idle"
          /\ IsServiceError(fetched'.exc)
          /\ outcome' = Raised(WAIT, fetched'.exc)
          /\ sleeps' = sleeps
          /\ refreshes' = refreshes + 1
          /\ log' = log]_vars

C8_Witness ==
    /\ WaitEnded
    /\ fetched.fetch = "error"
    /\ Len(log) = 1
    /\ refreshes = 2
    /\ sleeps = 1
    /\ outcome.kind = "raise"
    /\ outcome.exc.code = "SERVER_ERROR"

\* C9: the local status changes only in a step that fetched a response from
\* the service, and then to the status of that response; cancel, to_dict, a
\* refresh whose GET fails and the rest of wait_for_completion leave it.
C9_StatusOnlyFromFetch ==
    [][status' # status =>
          /\ fetched'.fetch = "ok"
          /\ status' = fetched'.data["status"]]_vars

C9_Witness ==
    /\ outcome.op = "refresh"
    /\ fetched.fetch = "error"
    /\ status = COMPLETED
    /\ results # None

\* C10 as stated: whenever wait_for_completion raises the timeout error, the
\* local status is neither completed nor failed.
C10_TimeoutMeansNonTerminal ==
    WaitTimedOut => status \notin Terminal

\* C10 as amended: whenever a wait_for_completion call with timeout > 0
\* raises the timeout error, it has fetched at least once, no fetched
\* response was terminal, and the local status is neither completed nor
\* failed.
C10_PositiveTimeoutMeansNonTerminal ==
    (WaitTimedOut /\ timeout > 0) =>
        /\ refreshes >= 1
        /\ Len(log) = refreshes
        /\ \A i \in 1..Len(log) : log[i]["status"] \notin Terminal
        /\ status \notin Terminal

C10_Witness ==
    /\ WaitTimedOut
    /\ timeout = 2
    /\ refreshes = 1
    /\ status = "pending"
    /\ results # None

(***************************************************************************)
(* The operations outside the polling loop.  Each has a specification of   *)
(* its own, whose initial states draw the arguments of one call into       *)
(* `call`; no Evaluation object exists there and no polling is going on.   *)
(***************************************************************************)
NoEvaluation ==
    /\ status = "None"
    /\ results = None
    /\ raw_data = None
    /\ id = "None"

NoPolling ==
    /\ now = 0
    /\ start_time = 0
    /\ timeout = 0
    /\ fetched = NoFetch
    /\ log = <<>>
    /\ refreshes = 0
    /\ sleeps = 0
    /\ refresh_time = 0

polling == <<now, start_time, timeout, fetched, log, refreshes, sleeps, refresh_time>>

(***************************************************************************)
(* EvaluationResults.pass_rate.  A float is the exact ratio num/den with   *)
(* den > 0.                                                                *)
(***************************************************************************)
MaxTests == 6

Float(n, d) == [cls |-> "float", num |-> n, den |-> d]

\* variant: passed tests over failed tests
pass_rate_OverFailed(self) ==
    IF self.failed_tests > 0
    THEN Float(self.passed_tests, self.failed_tests)
    ELSE Float(0, 1)

pass_rate(self) ==
    LET total == self.passed_tests + self.failed_tests
    IN  IF total > 0 THEN Float(self.passed_tests, total) ELSE Float(0, 1)

InitPassRate ==
    /\ \E p \in (0 - MaxTests)..MaxTests, f \in (0 - MaxTests)..MaxTests :
          /\ results = [from_dict(PayloadA) EXCEPT !.passed_tests = p, !.failed_tests = f]
          /\ call = [op |-> "pass_rate"]
    /\ status = "None"
    /\ raw_data = None
    /\ id = "None"
    /\ NoPolling
    /\ pc = "idle"
    /\ outcome = Idle
    /\ requests = <<>>

PassRate ==
    /\ call.op = "pass_rate"
    /\ outcome = Idle
    /\ outcome' = Returned("pass_rate", pass_rate(results))
    /\ UNCHANGED <<status, results, raw_data, id, pc, polling, requests, call>>

SpecPassRate == InitPassRate /\ [][PassRate]_vars

(***************************************************************************)
(* EvalClient.__init__.  A string is the sequence of its characters.       *)
(***************************************************************************)
MaxUrlLen == 4
MaxKeyLen == 2

DEFAULT_TIMEOUT == 30

UrlChars == {"h", "/"}
Strings(chars, n) == UNION {[1..k -> chars] : k \in 0..n}

\* variant: only one trailing character is removed
rstrip_Once(str, ch) ==
    IF str # <<>> /\ str[Len(str)] = ch
    THEN SubSeq(str, 1, Len(str) - 1)
    ELSE str

\* str.rstrip(ch)
RECURSIVE rstrip(_, _)
rstrip(str, ch) ==
    IF str # <<>> /\ str[Len(str)] = ch
    THEN rstrip(SubSeq(str, 1, Len(str) - 1), ch)
    ELSE str

ValueError == [cls |-> "ValueError", msg |-> "api_key_required", code |-> "None"]

\* what the constructor creates after the api_key test, in program order
ClientParts == <<"Session", "AgentsAPI", "TestSuitesAPI", "EvaluationsAPI", "WebhooksAPI">>

InitClient ==
    /\ \E k \in Strings({"k"}, MaxKeyLen), u \in Strings(UrlChars, MaxUrlLen) :
          call = [op |-> "EvalClient", api_key |-> k, base_url |-> u,
                  timeout |-> DEFAULT_TIMEOUT, created |-> <<>>]
    /\ NoEvaluation
    /\ NoPolling
    /\ pc = "idle"
    /\ outcome = Idle
    /\ requests = <<>>

EvalClientInit ==
    /\ call.op = "EvalClient"
    /\ outcome = Idle
    /\ IF call.api_key = <<>>
       THEN /\ outcome' = Raised("EvalClient", ValueError)
            /\ UNCHANGED call
       ELSE /\ outcome' = Returned("EvalClient",
                                   [cls |-> "EvalClient",
                                    api_key |-> call.api_key,
                                    base_url |-> rstrip(call.base_url, "/"),
                                    timeout |-> call.timeout])
            /\ call' = [call EXCEPT !.created = ClientParts]
    /\ UNCHANGED <<status, results, raw_data, id, pc, polling, requests>>

SpecClient == InitClient /\ [][EvalClientInit]_vars

(***************************************************************************)
(* TestSuitesAPI.list and TestSuitesAPI.get.                               *)
(***************************************************************************)
MaxSuites == 3

SuiteIds == {"suite_001", "suite_002"}
AskedSuiteIds == SuiteIds \cup {"suite_003"}
SuiteDicts == {[id |-> i, name |-> n] : i \in SuiteIds, n \in {"basic", "code"}}

\* TestSuite.from_dict
TestSuite(d) == [cls |-> "TestSuite", id |-> d["id"], name |-> d["name"]]

SuiteReplies ==
    {[kind |-> "response", status_code |-> 200, body |-> [test_suites |-> l]] :
        l \in UNION {[1..k -> SuiteDicts] : k \in 0..MaxSuites}}
    \cup {[kind |-> "response", status_code |-> 500], [kind |-> "timeout"]}

\* TestSuitesAPI.list on the body of GET /test-suites
suites_list(data) == [i \in 1..Len(data["test_suites"]) |-> TestSuite(data["test_suites"][i])]

\* variant: the loop keeps the last suite with the id
suites_get_Last(suites, suite_id, i) ==
    LET hits == {j \in i..Len(suites) : suites[j].id = suite_id}
    IN  IF hits = {} THEN None
        ELSE suites[CHOOSE j \in hits : \A k \in hits : k <= j]

\* the loop of TestSuitesAPI.get from position i on
RECURSIVE suites_get(_, _, _)
suites_get(suites, suite_id, i) ==
    IF i > Len(suites) THEN None
    ELSE IF suites[i].id = suite_id THEN suites[i]
    ELSE suites_get(suites, suite_id, i + 1)

InitSuites ==
    /\ \E sid \in AskedSuiteIds, reply \in SuiteReplies :
          call = [op |-> "test_suites.get", suite_id |-> sid, reply |-> reply]
    /\ NoEvaluation
    /\ NoPolling
    /\ pc = "idle"
    /\ outcome = Idle
    /\ requests = <<>>

TestSuitesGet ==
    /\ call.op = "test_suites.get"
    /\ outcome = Idle
    /\ requests' = Append(requests, _get(<<"/test-suites">>))
    /\ outcome' = IF _request(call.reply).ok
                  THEN Returned("test_suites.get",
                                suites_get(suites_list(_request(call.reply).data),
                                           call.suite_id, 1))
                  ELSE Raised("test_suites.get", _request(call.reply).exc)
    /\ UNCHANGED <<status, results, raw_data, id, pc, polling, call>>

SpecSuites == InitSuites /\ [][TestSuitesGet]_vars

(***************************************************************************)
(* EvalClient.quick_evaluate: AgentsAPI.create, EvaluationsAPI.create and, *)
(* with wait=True, wait_for_completion with its default timeout.           *)
(* `requests` collects every request of the call.                          *)
(***************************************************************************)
DEFAULT_WAIT_TIMEOUT == 300

AgentIds == {"agent_1", "agent_2"}
AgentFields == {"id", "name", "model", "version", "description", "metadata",
                "created_at", "organization"}

AgentDict(a) == [id |-> a, name |-> "my_agent", model |-> "gpt-4",
                 version |-> "1.0.0", description |-> "", metadata |-> <<>>,
                 created_at |-> "t0", organization |-> "org"]
\* a body of POST /agents that lacks required fields
AgentDictBad == [id |-> "agent_1"]

\* Agent.from_dict: cls(**data)
Agent_from_dict_ok(d) == DOMAIN d = AgentFields
Agent(d) == [cls |-> "Agent", id |-> d["id"], name |-> d["name"],
             model |-> d["model"], version |-> d["version"],
             description |-> d["description"], metadata |-> d["metadata"],
             created_at |-> d["created_at"], organization |-> d["organization"]]

AgentReplies ==
    {[kind |-> "response", status_code |-> 200, body |-> AgentDict(a)] : a \in AgentIds}
    \cup {[kind |-> "response", status_code |-> 200, body |-> AgentDictBad],
          [kind |-> "response", status_code |-> 401],
          [kind |-> "response", status_code |-> 500],
          [kind |-> "timeout"]}

EvaluationReplies ==
    {[kind |-> "response", status_code |-> 200, body |-> [id |-> e, status |-> st]] :
        e \in EvalIds, st \in {PENDING, COMPLETED}}
    \cup {[kind |-> "response", status_code |-> 404], [kind |-> "connection_error"]}

PollReplies ==
    {[kind |-> "response", status_code |-> 200, body |-> d] :
        d \in {[status |-> RUNNING], [status |-> COMPLETED],
               [status |-> COMPLETED, results |-> PayloadA], [status |-> FAILED]}}
    \cup {[kind |-> "response", status_code |-> 503]}

EvaluationObject(eval_id) == [cls |-> "Evaluation", id |-> eval_id]

InitQuick ==
    /\ \E w \in BOOLEAN :
          call = [op |-> "quick_evaluate", agent_name |-> "my_agent",
                  agent_model |-> "gpt-4", test_suite_id |-> "suite_001",
                  wait |-> w, agent |-> None, evaluation |-> None]
    /\ NoEvaluation
    /\ NoPolling
    /\ pc = "quick_agent"
    /\ outcome = InProgress("quick_evaluate")
    /\ requests = <<>>

\* agent = self.agents.create(name=agent_name, model=agent_model)
QuickCreateAgent ==
    /\ pc = "quick_agent"
    /\ requests' = Append(requests,
                          _post(<<"/agents">>,
                                [name |-> call.agent_name, model |-> call.agent_model,
                                 version |-> "1.0.0", description |-> "",
                                 metadata |-> <<>>]))
    /\ \E reply \in AgentReplies :
          IF ~_request(reply).ok
          THEN /\ pc' = "idle"
               /\ outcome' = Raised("quick_evaluate", _request(reply).exc)
               /\ UNCHANGED call
          ELSE IF ~Agent_from_dict_ok(_request(reply).data)
          THEN /\ pc' = "idle"
               /\ outcome' = Raised("quick_evaluate", TypeError)
               /\ UNCHANGED call
          ELSE /\ pc' = "quick_evaluation"
               /\ call' = [call EXCEPT !.agent = Agent(_request(reply).data)]
               /\ UNCHANGED outcome
    /\ UNCHANGED <<status, results, raw_data, id, polling>>

\* evaluation = self.evaluations.create(agent.id, test_suite_id), followed by
\* the `if wait` statement up to the first loop test of wait_for_completion
QuickCreateEvaluation ==
    /\ pc = "quick_evaluation"
    /\ requests' = Append(requests,
                          _post(<<"/evaluations">>,
                                [agent_id |-> call.agent.id,
                                 test_suite_id |-> call.test_suite_id,
                                 config |-> <<>>]))
    /\ \E reply \in EvaluationReplies :
          IF ~_request(reply).ok
          THEN /\ pc' = "idle"
               /\ outcome' = Raised("quick_evaluate", _request(reply).exc)
               /\ UNCHANGED <<status, results, raw_data, id, call, start_time, timeout>>
          ELSE /\ id' = _request(reply).data["id"]
               /\ status' = _request(reply).data["status"]
               /\ results' = None
               /\ raw_data' = _request(reply).data
               /\ call' = [call EXCEPT
                             !.evaluation = EvaluationObject(_request(reply).data["id"])]
               /\ IF call.wait
                  THEN /\ pc' = "test"
                       /\ start_time' = now
                       /\ timeout' = DEFAULT_WAIT_TIMEOUT
                       /\ outcome' = InProgress("wait_for_completion")
                  ELSE /\ pc' = "idle"
                       /\ outcome' = Returned("quick_evaluate",
                                              EvaluationObject(_request(reply).data["id"]))
                       /\ UNCHANGED <<start_time, timeout>>
    /\ UNCHANGED <<now, fetched, log, refreshes, sleeps, refresh_time>>

\* one refresh of the polling loop started by quick_evaluate
QuickPoll ==
    /\ call.op = "quick_evaluate"
    /\ \E reply \in PollReplies : WaitRefreshCall(reply, 0)

\* variant: an error of wait_for_completion is swallowed and None returned
QuickReturn_SwallowsErrors ==
    /\ call.op = "quick_evaluate"
    /\ pc = "idle"
    /\ outcome.op = "wait_for_completion"
    /\ outcome' = IF outcome.kind = "return"
                  THEN Returned("quick_evaluate", outcome.value)
                  ELSE Returned("quick_evaluate", None)
    /\ fetched' = NoFetch
    /\ UNCHANGED <<status, results, raw_data, id, pc, now, start_time, timeout,
                   log, refreshes, sleeps, refresh_time, requests, call>>

\* return evaluation.wait_for_completion()
QuickReturn ==
    /\ call.op = "quick_evaluate"
    /\ pc = "idle"
    /\ outcome.op = "wait_for_completion"
    /\ outcome' = IF outcome.kind = "return"
                  THEN Returned("quick_evaluate", outcome.value)
                  ELSE Raised("quick_evaluate", outcome.exc)
    /\ fetched' = NoFetch
    /\ UNCHANGED <<status, results, raw_data, id, pc, now, start_time, timeout,
                   log, refreshes, sleeps, refresh_time, requests, call>>

NextQuick ==
    \/ QuickCreateAgent
    \/ QuickCreateEvaluation
    \/ WaitTest
    \/ QuickPoll
    \/ WaitCheck
    \/ WaitSleep
    \/ QuickReturn

SpecQuick == InitQuick /\ [][NextQuick]_vars

\* C11: wait_for_completion returns a value only when the last refresh of
\* the call fetched status completed with results; a service error, a failed
\* status, completed without results and an exceeded budget all raise, and
\* every call ends in exactly one of a return and a raise.
C11_ReturnsOnlyCompletedResults ==
    WaitEnded =>
        /\ outcome.kind \in {"return", "raise"}
        /\ outcome.kind = "return" <=>
              /\ Len(log) >= 1
              /\ refreshes = Len(log)
              /\ Last(log)["status"] = COMPLETED
              /\ HasResults(Last(log))
              /\ Converts(Last(log))

\* C12: inside one wait_for_completion call two consecutive refresh calls
\* are separated by exactly one sleep, and every sleep lasts the polling
\* interval of 2 time units.
C12_OneSleepBetweenPolls ==
    /\ [](pc # "idle" =>
            /\ pc \in {"test", "refresh"} => sleeps = refreshes
            /\ pc \in {"check", "sleep"} => sleeps = refreshes - 1)
    /\ [][/\ (pc # "idle" /\ refreshes' = refreshes + 1) =>
                (pc = "refresh" /\ sleeps = refreshes /\ sleeps' = sleeps)
          /\ (pc # "idle" /\ sleeps' = sleeps + 1) =>
                /\ pc = "sleep"
                /\ refreshes' = refreshes
                /\ sleeps = refreshes - 1
                /\ now' - now = 2]_vars

C12_Witness ==
    /\ outcome.op = WAIT
    /\ pc = "refresh"
    /\ refreshes = 2
    /\ sleeps = 2
    /\ now - start_time = 4

C14_OnlyGetsOwnEvaluation ==
    outcome.op \in {"refresh", WAIT} =>
        /\ Len(requests) = refreshes
        /\ \A i \in 1..Len(requests) :
              /\ requests[i].method = "GET"
              /\ requests[i].endpoint = <<"/evaluations/", id>>
              /\ DOMAIN requests[i] = {"method", "endpoint"}

C14_Witness ==
    /\ WaitTimedOut
    /\ timeout > 0
    /\ Len(requests) = 2
    /\ requests[2] = [method |-> "GET", endpoint |-> <<"/evaluations/", id>>]

\* C20: a refresh that raises, because the GET fails or because the fetched
\* results cannot be turned into a result object, leaves status, results and
\* raw data exactly as they were.
C20_FailedRefreshLeavesMirror ==
    [][(fetched'.fetch # "none" /\ outcome'.kind = "raise") =>
          /\ status' = status
          /\ results' = results
          /\ raw_data' = raw_data]_vars

\* C19: a failed remote call surfaces from refresh as an EvalException and
\* nothing else: 401 gives AUTH_ERROR, 404 NOT_FOUND, a status >= 500
\* SERVER_ERROR, any other error status REQUEST_ERROR, a request timeout
\* TIMEOUT and a connection failure CONNECTION_ERROR; the body is handed to
\* refresh only for a non-error status.
ExpectedCode(reply) ==
    IF reply.kind = "timeout" THEN "TIMEOUT"
    ELSE IF reply.kind = "connection_error" THEN "CONNECTION_ERROR"
    ELSE IF reply.status_code = 401 THEN "AUTH_ERROR"
    ELSE IF reply.status_code = 404 THEN "NOT_FOUND"
    ELSE IF reply.status_code >= 500 THEN "SERVER_ERROR"
    ELSE "REQUEST_ERROR"

IsErrorReply(reply) == reply.kind # "response" \/ reply.status_code >= 400

C19_ServiceErrorCodes ==
    (call.op = "refresh" /\ outcome.op = "refresh") =>
        IF IsErrorReply(call.reply)
        THEN /\ outcome.kind = "raise"
             /\ outcome.exc.cls = "EvalException"
             /\ outcome.exc.code = ExpectedCode(call.reply)
             /\ fetched.fetch = "error"
             /\ raw_data = [status |-> PENDING]
             /\ status = PENDING
        ELSE /\ outcome.kind = "return"
             /\ fetched = Fetched(call.reply.body)
             /\ raw_data = call.reply.body

C19_Witness ==
    /\ call.op = "refresh"
    /\ call.reply.kind = "response"
    /\ call.reply.status_code = 500
    /\ outcome.op = "refresh"
    /\ outcome.kind = "raise"
    /\ outcome.exc.code = "SERVER_ERROR"
    /\ requests = <<refresh_request(id)>>

\* C17 as stated: for all integer passed_tests and failed_tests, pass_rate
\* lies between 0 and 1 inclusive, and equals passed_tests / (passed_tests +
\* failed_tests) when that total is positive and 0 otherwise.
PassRateValue ==
    LET total == results.passed_tests + results.failed_tests
        r == outcome.value
    IN  /\ r.den > 0
        /\ total > 0 => r.num * total = results.passed_tests * r.den
        /\ total <= 0 => r.num = 0

PassRateInUnitInterval ==
    /\ outcome.value.den > 0
    /\ 0 <= outcome.value.num
    /\ outcome.value.num <= outcome.value.den

OnlySlashes(str) == \A i \in 1..Len(str) : str[i] = "/"

C16_ClientConstruction ==
    outcome.op = "EvalClient" =>
        IF call.api_key = <<>>
        THEN /\ outcome = Raised("EvalClient", ValueError)
             /\ call.created = <<>>
        ELSE /\ outcome.kind = "return"
             /\ outcome.value.api_key = call.api_key
             /\ LET stored == outcome.value.base_url
                    n == Len(stored)
                IN  /\ n <= Len(call.base_url)
                    /\ stored = SubSeq(call.base_url, 1, n)
                    /\ OnlySlashes(SubSeq(call.base_url, n + 1, Len(call.base_url)))
                    /\ n > 0 => stored[n] # "/"

C16_Witness ==
    /\ outcome.op = "EvalClient"
    /\ outcome.kind = "return"
    /\ call.base_url = <<"h", "/", "/">>
    /\ outcome.value.base_url = <<"h">>

\* C18: TestSuitesAPI.get returns the first listed suite whose id is
\* suite_id, or None when no listed suite has that id, and issues exactly
\* one GET of /test-suites either way.
HasSuite(l, sid) == \E i \in 1..Len(l) : l[i]["id"] = sid
FirstSuite(l, sid) ==
    CHOOSE i \in 1..Len(l) : l[i]["id"] = sid /\ \A j \in 1..(i - 1) : l[j]["id"] # sid

C18_FirstMatchingSuite ==
    outcome.op = "test_suites.get" =>
        /\ requests = <<[method |-> "GET", endpoint |-> <<"/test-suites">>]>>
        /\ (call.reply.kind = "response" /\ call.reply.status_code = 200) =>
              LET l == call.reply.body["test_suites"]
              IN  /\ outcome.kind = "return"
                  /\ IF HasSuite(l, call.suite_id)
                     THEN /\ outcome.value.cls = "TestSuite"
                          /\ outcome.value.id = call.suite_id
                          /\ outcome.value.name = l[FirstSuite(l, call.suite_id)]["name"]
                     ELSE outcome.value = None

C18_Witness ==
    /\ outcome.op = "test_suites.get"
    /\ call.suite_id = "suite_002"
    /\ call.reply.kind = "response"
    /\ call.reply.status_code = 200
    /\ call.reply.body["test_suites"] = <<[id |-> "suite_001", name |-> "basic"],
                                          [id |-> "suite_002", name |-> "code"],
                                          [id |-> "suite_002", name |-> "basic"]>>
    /\ outcome.value = [cls |-> "TestSuite", id |-> "suite_002", name |-> "code"]

\* C15: quick_evaluate creates the agent first and the evaluation second,
\* and creates no evaluation when the agent creation fails; with wait=False
\* it returns the Evaluation object without any status fetch, and with
\* wait=True it returns what wait_for_completion returns (an
\* EvaluationResults) or raises what it raises.
QuickEnded == call.op = "quick_evaluate" /\ outcome.op = "quick_evaluate"
                 /\ outcome.kind # "running"

C15_QuickEvaluate ==
    /\ [](call.op = "quick_evaluate" =>
            /\ Len(requests) >= 1 =>
                  (requests[1].method = "POST" /\ requests[1].endpoint = <<"/agents">>)
            /\ Len(requests) >= 2 =>
                  /\ call.agent # None
                  /\ requests[2].method = "POST"
                  /\ requests[2].endpoint = <<"/evaluations">>
                  /\ requests[2].data.agent_id = call.agent.id
            /\ \A i \in 3..Len(requests) :
                  requests[i] = [method |-> "GET", endpoint |-> <<"/evaluations/", id>>]
            /\ (QuickEnded /\ ~call.wait) =>
                  /\ Len(requests) <= 2
                  /\ refreshes = 0
                  /\ outcome.kind = "return" =>
                        /\ Len(requests) = 2
                        /\ outcome.value = call.evaluation
                        /\ outcome.value.cls = "Evaluation"
            /\ (QuickEnded /\ call.wait /\ outcome.kind = "return") =>
                  outcome.value.cls = "EvaluationResults")
    /\ [][(call.op = "quick_evaluate" /\ outcome.op = WAIT
              /\ outcome'.op = "quick_evaluate") =>
             /\ outcome'.kind = outcome.kind
             /\ outcome.kind = "return" => outcome'.value = outcome.value
             /\ outcome.kind = "raise" => outcome'.exc = outcome.exc]_vars

C15_Witness ==
    /\ QuickEnded
    /\ call.wait
    /\ outcome.kind = "return"
    /\ outcome.value = from_dict(PayloadA)
    /\ Len(requests) = 4
    /\ refreshes = 2

\* C21: a wait_for_completion call with timeout > 0 refreshes at least once
\* before it decides, also on a mirror that is already completed or failed,
\* and its outcome is determined by the responses fetched during the call
\* alone: a failed GET raises its service error, and otherwise the last
\* response decides (completed returns the results fetched in the call or
\* raises when none was fetched, failed raises, anything else times out).
ConvertibleAt(q) == {i \in 1..Len(q) : HasResults(q[i]) /\ from_dict_ok(q[i]["results"])}

\* the results object that the responses of `q` alone leave behind
LatestResults(q) ==
    IF ConvertibleAt(q) = {}
    THEN None
    ELSE from_dict(q[CHOOSE i \in ConvertibleAt(q) :
                        \A j \in ConvertibleAt(q) : j <= i]["results"])

C21_FreshFetchDecides ==
    (WaitEnded /\ timeout > 0) =>
        /\ refreshes >= 1
        /\ IF refreshes > Len(log)
           THEN outcome.kind = "raise" /\ IsServiceError(outcome.exc)
           ELSE IF ~Converts(Last(log))
           THEN outcome = Raised(WAIT, TypeError)
           ELSE IF Last(log)["status"] = COMPLETED
           THEN outcome = IF LatestResults(log) = None
                          THEN Raised(WAIT, NoResultsError)
                          ELSE Returned(WAIT, LatestResults(log))
           ELSE IF Last(log)["status"] = FAILED
           THEN outcome = Raised(WAIT, FailedError)
           ELSE outcome = Raised(WAIT, TimeoutError)

\* the part of C21 about the status alone: the status held before the call
\* is overwritten by the first fetch before anything is decided
C21_StatusPart ==
    (WaitEnded /\ timeout > 0) =>
        /\ refreshes >= 1
        /\ refreshes = Len(log) => status = Last(log)["status"]
        /\ outcome.kind = "return" => Last(log)["status"] = COMPLETED
        /\ (outcome.kind = "raise" /\ outcome.exc = FailedError) =>
              Last(log)["status"] = FAILED

\* C22: every wait_for_completion call ends, whatever the timeout and
\* whatever the service answers, as long as every refresh comes back; with
\* timeout > 0 and refreshes that take no time the call polls at elapsed
\* times 0, 2, 4, ... strictly below timeout, which makes at most
\* ceil(timeout / 2) refresh calls.
CeilDiv(n, d) == (n + d - 1) \div d

C22_TerminatesWithinBudget ==
    /\ (pc # "idle") ~> (pc = "idle")
    /\ []((outcome.op = WAIT /\ timeout > 0 /\ refresh_time = 0) =>
            /\ refreshes <= CeilDiv(timeout, POLLING_INTERVAL)
            /\ pc = "refresh" =>
                  /\ now - start_time = POLLING_INTERVAL * refreshes
                  /\ now - start_time < timeout
            /\ pc = "check" =>
                  /\ now - start_time = POLLING_INTERVAL * (refreshes - 1)
                  /\ now - start_time < timeout)

C22_Witness ==
    /\ WaitTimedOut
    /\ timeout = 5
    /\ refresh_time = 0
    /\ refreshes = 3
    /\ Len(log) = 3
    /\ now - start_time = 6

\* C23: refresh copies the status string of the service as it is, also a
\* string outside the four fixed values; wait_for_completion sleeps and
\* polls again on every fetched status other than completed and failed, and
\* a call ends only by the timeout error, by a service error, or by a
\* fetched terminal response.
C23_CopiesStatus == fetched.fetch = "ok" => status = fetched.data["status"]

C23_KeepsPolling ==
    (pc = "check" /\ status \notin Terminal) => (pc' = "sleep" /\ outcome' = outcome)

C23_NonTerminalKeepsPolling ==
    /\ []C23_CopiesStatus
    /\ [][C23_KeepsPolling]_vars
    /\ [](WaitEnded =>
            \/ outcome = Raised(WAIT, TimeoutError)
            \/ outcome.kind = "raise" /\ IsServiceError(outcome.exc)
            \/ Len(log) >= 1 /\ Last(log)["status"] \in Terminal)

\* the part of C23 that holds: the same, with a fourth way for a call to
\* end, the TypeError of a results payload that cannot be converted
C23_ApartFromTypeError ==
    /\ []C23_CopiesStatus
    /\ [][C23_KeepsPolling]_vars
    /\ [](WaitEnded =>
            \/ outcome = Raised(WAIT, TimeoutError)
            \/ outcome.kind = "raise" /\ IsServiceError(outcome.exc)
            \/ Len(log) >= 1 /\ Last(log)["status"] \in Terminal
            \/ /\ outcome = Raised(WAIT, TypeError)
               /\ Len(log) >= 1
               /\ ~Converts(Last(log)))

\* a call that polled a status outside the fixed values until the timeout
C23_PausedPolledUntilTimeout ==
    /\ WaitTimedOut
    /\ refreshes = 2
    /\ \A i \in 1..Len(log) : log[i]["status"] = "paused"
    /\ status = "paused"

====
